---- MODULE Spec2Model ----
(***************************************************************************)
(* Model of config/skills/agent/browse-stealth/stealth-browse.py:          *)
(* endpoint resolution (get_ws_url, ensure_chrome_running), the attach to  *)
(* the browser's existing context and the three actions (read, screenshot, *)
(* interact) with the risk classifier (detect_risk_control), as run by     *)
(* main().                                                                 *)
(*                                                                         *)
(* Text (URLs, page content, keywords, launcher output) is a sequence of   *)
(* Unicode code points, so that lower-casing, substring search and prefix  *)
(* tests are computed the way the Python code computes them.               *)
(***************************************************************************)
EXTENDS Integers, Sequences, FiniteSets

VARIABLES
    pc,           \* position of the control flow of main()
    run,          \* number of the current invocation of the script
    args,         \* the parsed command line (argparse namespace)
    fetches,      \* get_ws_url calls of this invocation: [port, resp]
    launches,     \* launcher runs of this invocation: [port, rc, last]
    ws_url,       \* main's ws_url
    contexts,     \* browser.contexts as seen after connect
    context,      \* main's context
    browserCtx,   \* the contexts that exist in the browser
    pagesCreated, \* pages created by this invocation
    pageOpen,     \* whether the created page is open
    page,         \* the live page: [url, content, readable]
    ops,          \* the calls made on the browser, the page and the OS, in
                  \* order, but for those of the Perform step
    performed,    \* the Perform operations invoked on the page
    risk,         \* the action's local `risk`
    results,      \* the action's local `results`
    idx,          \* loop position in the selector / container list
    seen,         \* what the last probe of read's content heuristic observed
    result,       \* main's result
    printed,      \* the documents printed on stdout
    exitCode,     \* exit status of the process (NoExit while running)
    browserUp,    \* environment: ports on which a browser answers
    files,        \* environment: the screenshot files written so far
    before,       \* classifier study: the signals before the text changed
    added         \* classifier study: the keyword added and where

vars == <<pc, run, args, fetches, launches, ws_url, contexts, context,
          browserCtx, pagesCreated, pageOpen, page, ops, performed, risk,
          results, idx, seen,
          result, printed, exitCode, browserUp, files, before, added>>

envVars == <<browserUp, files>>
studyVars == <<before, added>>
resolveVars == <<fetches, launches, ws_url>>
attachVars == <<contexts, context, browserCtx, pagesCreated, pageOpen>>
actionVars == <<page, ops, performed, risk, results, idx, seen>>
outVars == <<result, printed, exitCode>>

-----------------------------------------------------------------------------
(* Bounds of the model *)

\* invocations of the script in one behaviour
MaxRuns == 2
\* selectors on the command line
MaxSelectors == 2
\* text fragments a classified page is built from
MaxFragments == 2
\* seconds the clock may advance in one behaviour
MaxTime == 1

-----------------------------------------------------------------------------
(* Text *)

\* str.lower() on one code point: A-Z to a-z, everything else unchanged
LowerChar(c) == IF c \in 65..90 THEN c + 32 ELSE c

\* str.lower()
Lower(s) == [i \in 1..Len(s) |-> LowerChar(s[i])]

\* needle in hay
Contains(hay, needle) ==
    \E i \in 0..(Len(hay) - Len(needle)) :
        SubSeq(hay, i + 1, i + Len(needle)) = needle

\* s.startswith(prefix)
StartsWith(s, prefix) ==
    /\ Len(prefix) <= Len(s)
    /\ SubSeq(s, 1, Len(prefix)) = prefix

\* "captcha", "verify", "challenge" (line 110)
url_tokens ==
    << <<99, 97, 112, 116, 99, 104, 97>>,
       <<118, 101, 114, 105, 102, 121>>,
       <<99, 104, 97, 108, 108, 101, 110, 103, 101>> >>

\* risk_keywords (lines 115-120), in the order of the list
risk_keywords ==
    << <<39564, 35777, 30721>>,                    \* 验证码
       <<28369, 22359, 39564, 35777>>,             \* 滑块验证
       <<20154, 26426, 39564, 35777>>,             \* 人机验证
       <<25805, 20316, 39057, 32321>>,             \* 操作频繁
       <<99, 97, 112, 116, 99, 104, 97>>,          \* captcha
       <<118, 101, 114, 105, 102, 121, 32, 121, 111, 117, 32, 97, 114, 101,
         32, 104, 117, 109, 97, 110>>,             \* verify you are human
       <<114, 97, 116, 101, 32, 108, 105, 109, 105, 116>>,   \* rate limit
       <<116, 111, 111, 32, 109, 97, 110, 121, 32, 114, 101, 113, 117, 101,
         115, 116, 115>>,                          \* too many requests
       <<97, 99, 99, 101, 115, 115, 32, 100, 101, 110, 105, 101, 100>>,
                                                   \* access denied
       <<121, 111, 117, 32, 104, 97, 118, 101, 32, 98, 101, 101, 110, 32,
         98, 108, 111, 99, 107, 101, 100>>,        \* you have been blocked
       <<121, 111, 117, 114, 32, 97, 99, 99, 111, 117, 110, 116, 32, 104,
         97, 115, 32, 98, 101, 101, 110, 32, 108, 111, 99, 107, 101, 100>>,
                                                   \* your account has been locked
       <<115, 117, 115, 112, 105, 99, 105, 111, 117, 115, 32, 97, 99, 116,
         105, 118, 105, 116, 121>> >>              \* suspicious activity

-----------------------------------------------------------------------------
(* Risk control detection *)

\* the signal "captcha_url"
CaptchaUrlSignal == [tag |-> "captcha_url", term |-> <<>>]

\* the signal f"keyword:{kw}"
KeywordSignal(kw) == [tag |-> "keyword", term |-> kw]

\* lines 109-111: the URL check
UrlSignals(url) ==
    IF \E i \in 1..Len(url_tokens) : Contains(Lower(url), url_tokens[i])
    THEN <<CaptchaUrlSignal>>
    ELSE <<>>

\* kw.lower() for each keyword of the list (line 123)
risk_keywords_lower ==
    [i \in 1..Len(risk_keywords) |-> Lower(risk_keywords[i])]

\* a variant of KeywordHit that compares without lower-casing the content
KeywordHitCaseSensitive(content, i) == Contains(content, risk_keywords_lower[i])

\* line 123: kw.lower() in content_lower, for the i-th keyword
KeywordHit(content, i) == Contains(Lower(content), risk_keywords_lower[i])

\* lines 122-124: one signal per keyword found, in the order of the list
RECURSIVE KeywordSignalsFrom(_, _)
KeywordSignalsFrom(content, i) ==
    IF i > Len(risk_keywords) THEN <<>>
    ELSE (IF KeywordHit(content, i)
          THEN <<KeywordSignal(risk_keywords[i])>>
          ELSE <<>>) \o KeywordSignalsFrom(content, i + 1)

\* lines 113-126: the content check; a page whose content cannot be read
\* raises inside the try and adds nothing
ContentSignals(p) ==
    IF p.readable THEN KeywordSignalsFrom(p.content, 1) ELSE <<>>

\* lines 105-131
detect_risk_control(p) ==
    LET signals == UrlSignals(p.url) \o ContentSignals(p)
    IN  [ran |-> TRUE, detected |-> Len(signals) > 0, signals |-> signals]

\* the value of `risk` before the classifier has run
NoRisk == [ran |-> FALSE, detected |-> FALSE, signals |-> <<>>]

-----------------------------------------------------------------------------
(* Program constants and the command line *)

\* CDP_PORT (line 30)
CDP_PORT == 9222

\* the ports a caller may name with --cdp-port: the default and another one
Ports == {CDP_PORT, CDP_PORT + 1}

\* Python's None
None == "None"

\* exitCode while the process runs
NoExit == 0 - 1

\* the target URL: "a.io"
TargetUrl == <<97, 46, 105, 111>>

\* the CSS selectors a caller may give
Selectors == {"#a", "#missing"}

\* sequences over S of length at most n
SeqsUpTo(S, n) == UNION {[1..k -> S] : k \in 0..n}

\* lines 267-275: the namespaces parse_args can return. Options an action
\* never reads are left at their defaults (selectors and wait_for for
\* screenshot, wait_for for interact); wait_timeout only bounds a wait whose
\* outcome the environment decides, and is left out
ArgSpace ==
    {a \in [action : {"read", "screenshot", "interact"},
            url : {TargetUrl},
            selectors : SeqsUpTo(Selectors, MaxSelectors),
            wait_for : {None, "#ready"},
            cdp_port : Ports] :
        /\ a.action = "screenshot" => a.selectors = <<>>
        /\ a.action # "read" => a.wait_for = None}

-----------------------------------------------------------------------------
(* Result documents *)

\* a document with no key set
EmptyDoc ==
    [keys |-> {}, success |-> FALSE, error |-> <<>>, signals |-> <<>>,
     url |-> <<>>, title |-> "", payload |-> <<>>]

\* {"success": False, "error": ...}; the error is its code followed by the
\* message formatted into it, if any
FailureDoc(err) ==
    [EmptyDoc EXCEPT !.keys = {"success", "error"}, !.error = err]

\* lines 157-162 / 208-212 / 235-239: the risk_control_detected result
\* (action_read adds "advice")
RiskDoc(action, r) ==
    [EmptyDoc EXCEPT
        !.keys = {"success", "error", "signals"}
                 \cup (IF action = "read" THEN {"advice"} ELSE {}),
        !.error = <<"risk_control_detected">>,
        !.signals = r.signals]

\* a faulty variant of TopLevelSuccess: true only when every selector has
\* been clicked or read
TopLevelSuccessIfAllOk(payload) ==
    \A i \in 1..Len(payload) :
        IF "action" \in DOMAIN payload[i] THEN payload[i].success
        ELSE IF "value" \in DOMAIN payload[i]
             THEN payload[i].value.kind = "text"
        ELSE TRUE

\* lines 188, 221, 257: "success": True, whatever the payload holds
TopLevelSuccess(payload) == TRUE

\* lines 187-192 / 220-225 / 256-261: the success result; key is the name
\* of the action's payload
SuccessDoc(key, url, payload) ==
    [EmptyDoc EXCEPT
        !.keys = {"success", "url", "title", key},
        !.success = TopLevelSuccess(payload),
        !.url = url,
        !.title = "title",
        !.payload = payload]

-----------------------------------------------------------------------------
(* The environment: what answers on a port, what the launcher does *)

\* "ws://" (line 72)
WsPrefix == <<119, 115, 58, 47, 47>>

\* the session URL of the browser on a port: "ws://" and the port's digit
BrowserWs(port) == WsPrefix \o <<port - CDP_PORT + 48>>

\* the answers to GET /json/version: connected is FALSE when the connection
\* is refused; parseable, hasField describe the body
Resp(connected, status, parseable, hasField, field) ==
    [connected |-> connected, status |-> status, parseable |-> parseable,
     hasField |-> hasField, field |-> field]

\* what a port answers: a browser that is up answers 200 with its session
\* URL; otherwise the connection is refused or something else answers
Responses(port, up) ==
    IF port \in up
    THEN {Resp(TRUE, 200, TRUE, TRUE, BrowserWs(port))}
    ELSE {Resp(FALSE, 0, FALSE, FALSE, <<>>),
          Resp(TRUE, 404, TRUE, TRUE, BrowserWs(port)),
          Resp(TRUE, 200, FALSE, FALSE, <<>>),
          Resp(TRUE, 200, TRUE, FALSE, <<>>)}

\* "started": a line of launcher output that is no session URL
StartedLine == <<115, 116, 97, 114, 116, 101, 100>>

\* what a run of the launcher on a port may do: its return code, the lines
\* it prints, and whether a browser answers on the port afterwards (one does
\* when the launcher printed its session URL)
LauncherRuns(port) ==
    {[rc |-> 1, out |-> <<>>, started |-> FALSE],
     [rc |-> 1, out |-> <<BrowserWs(port)>>, started |-> TRUE],
     [rc |-> 0, out |-> <<StartedLine, BrowserWs(port)>>, started |-> TRUE],
     [rc |-> 0, out |-> <<BrowserWs(port), <<>>>>, started |-> TRUE],
     [rc |-> 0, out |-> <<BrowserWs(port), StartedLine>>, started |-> TRUE],
     [rc |-> 0, out |-> <<>>, started |-> TRUE],
     [rc |-> 0, out |-> <<>>, started |-> FALSE]}

\* browser.contexts of a connected browser
ContextLists == {<<>>, <<"default", "incognito">>}

\* the elements of a sequence
Range(s) == {s[i] : i \in 1..Len(s)}

-----------------------------------------------------------------------------
(* CDP connection helpers *)

\* a faulty variant of get_ws_url with the status test inverted
get_ws_url_inverted_status(resp) ==
    IF resp.connected /\ resp.status # 200 /\ resp.parseable /\ resp.hasField
    THEN [ok |-> TRUE, value |-> resp.field]
    ELSE [ok |-> FALSE, value |-> <<>>]

\* lines 36-53: the session URL out of the answer, or an exception
get_ws_url(resp) ==
    IF ~resp.connected THEN [ok |-> FALSE, value |-> <<>>]
    ELSE IF resp.status # 200 THEN [ok |-> FALSE, value |-> <<>>]
    ELSE IF ~resp.parseable THEN [ok |-> FALSE, value |-> <<>>]
    ELSE IF ~resp.hasField THEN [ok |-> FALSE, value |-> <<>>]
    ELSE [ok |-> TRUE, value |-> resp.field]

\* lines 59, 65, 75: the port ensure_chrome_running fetches from and passes
\* to the launcher: get_ws_url() is called without an argument and the
\* launcher gets str(CDP_PORT), whatever a.cdp_port is
ResolvePort(a) == CDP_PORT

\* str.strip() on the launcher's output, seen as lines: blank lines at both
\* ends go
RECURSIVE StripLines(_)
StripLines(lines) ==
    IF lines = <<>> THEN <<>>
    ELSE IF Head(lines) = <<>> THEN StripLines(Tail(lines))
    ELSE IF lines[Len(lines)] = <<>>
         THEN StripLines(SubSeq(lines, 1, Len(lines) - 1))
    ELSE lines

\* line 71: result.stdout.strip().split("\n")[-1]
LastLine(lines) ==
    LET stripped == StripLines(lines)
    IN  IF stripped = <<>> THEN <<>> ELSE stripped[Len(stripped)]

\* sys.exit(1) after printing doc
ExitWith(doc) ==
    /\ printed' = Append(printed, doc)
    /\ exitCode' = 1
    /\ pc' = "exited"
    /\ UNCHANGED result

\* lines 291-293: ensure_chrome_running raised e
LaunchFailed(e) == ExitWith(FailureDoc(<<"chrome_launch_failed", e>>))

-----------------------------------------------------------------------------
(* main, up to the action *)

\* what a probe of read's content heuristic sees of a container: the lookup
\* raises, there is no such element, its text cannot be read, or it has a
\* text t (the element it comes from and its length)
Observation(kind, t) == [kind |-> kind, text |-> t]

\* seen before any probe
NoObservation == Observation("none", [src |-> "", len |-> 0])

\* args before the command line is parsed
NoArgs ==
    [action |-> None, url |-> <<>>, selectors |-> <<>>, wait_for |-> None,
     cdp_port |-> CDP_PORT]

Init ==
    /\ pc = "start"
    /\ run = 1
    /\ args = NoArgs
    /\ fetches = <<>>
    /\ launches = <<>>
    /\ ws_url = <<>>
    /\ contexts = <<>>
    /\ context = None
    /\ browserCtx = {}
    /\ pagesCreated = 0
    /\ pageOpen = FALSE
    /\ page = [url |-> <<>>, content |-> <<>>, readable |-> TRUE]
    /\ ops = <<>>
    /\ performed = {}
    /\ risk = NoRisk
    /\ results = <<>>
    /\ idx = 1
    /\ seen = NoObservation
    /\ result = EmptyDoc
    /\ printed = <<>>
    /\ exitCode = NoExit
    /\ browserUp \in SUBSET {CDP_PORT}
    /\ files = <<>>
    /\ before = <<>>
    /\ added = <<>>

\* lines 267-275: args = parser.parse_args()
ParseArgs ==
    /\ pc = "start"
    /\ args' \in ArgSpace
    /\ pc' = "import"
    /\ UNCHANGED <<run, resolveVars, attachVars, actionVars, outVars, envVars,
                   studyVars>>

\* line 275: the command line does not parse (--url missing, an --action
\* outside the choices, a --wait-timeout that is no integer): argparse prints
\* its usage message on stderr and exits with status 2
ParseArgsFails ==
    /\ pc = "start"
    /\ exitCode' = 2
    /\ pc' = "exited"
    /\ UNCHANGED <<run, args, resolveVars, attachVars, actionVars, result,
                   printed, envVars, studyVars>>

\* lines 278-286: the import of patchright succeeds
ImportOk ==
    /\ pc = "import"
    /\ pc' = "resolve"
    /\ UNCHANGED <<run, args, resolveVars, attachVars, actionVars, outVars,
                   envVars, studyVars>>

\* lines 280-286: ImportError
ImportFails ==
    /\ pc = "import"
    /\ ExitWith([FailureDoc(<<"patchright_not_installed">>)
                    EXCEPT !.keys = @ \cup {"fix"}])
    /\ UNCHANGED <<run, args, resolveVars, attachVars, actionVars,
                   envVars, studyVars>>

\* lines 58-61: the first get_ws_url() of ensure_chrome_running
FirstFetch ==
    /\ pc = "resolve"
    /\ \E resp \in Responses(ResolvePort(args), browserUp) :
        /\ fetches' = Append(fetches, [port |-> ResolvePort(args), resp |-> resp])
        /\ IF get_ws_url(resp).ok
           THEN /\ ws_url' = get_ws_url(resp).value
                /\ pc' = "connect"
           ELSE /\ ws_url' = ws_url
                /\ pc' = "launch"
    /\ UNCHANGED <<run, args, launches, attachVars, actionVars, outVars,
                   envVars, studyVars>>

\* a faulty variant of LaunchOutcome that does not look at the return code
LaunchOutcomeIgnoringRc(rc, last) ==
    IF StartsWith(last, WsPrefix) THEN "return" ELSE "refetch"

\* a faulty variant of LaunchOutcome that never takes the launcher's last line
\* for the session URL
LaunchOutcomeAlwaysRefetch(rc, last) ==
    IF rc # 0 THEN "raise" ELSE "refetch"

\* lines 68-75: what ensure_chrome_running does with the launcher's result
LaunchOutcome(rc, last) ==
    IF rc # 0 THEN "raise"
    ELSE IF StartsWith(last, WsPrefix) THEN "return"
    ELSE "refetch"

\* lines 63-75: the launcher runs
Launch ==
    /\ pc = "launch"
    /\ \E l \in LauncherRuns(ResolvePort(args)) :
        LET port == ResolvePort(args)
            last == LastLine(l.out)
            outcome == LaunchOutcome(l.rc, last)
        IN  /\ launches' = Append(launches,
                                  [port |-> port, rc |-> l.rc, last |-> last])
            /\ browserUp' = IF l.started THEN browserUp \cup {port}
                            ELSE browserUp
            /\ CASE outcome = "raise" ->
                      /\ LaunchFailed("Failed to launch Chrome")
                      /\ UNCHANGED ws_url
                 [] outcome = "return" ->
                      /\ ws_url' = last
                      /\ pc' = "connect"
                      /\ UNCHANGED outVars
                 [] outcome = "refetch" ->
                      /\ pc' = "refetch"
                      /\ UNCHANGED <<ws_url, outVars>>
    /\ UNCHANGED <<run, args, fetches, attachVars, actionVars, files,
                   studyVars>>

\* line 64: subprocess.run raises TimeoutExpired after 30 s
LaunchTimesOut ==
    /\ pc = "launch"
    /\ launches' = Append(launches, [port |-> ResolvePort(args), rc |-> NoExit,
                                     last |-> <<>>])
    /\ LaunchFailed("timed out")
    /\ UNCHANGED <<run, args, fetches, ws_url, attachVars, actionVars,
                   envVars, studyVars>>

\* line 75: the second get_ws_url(), after a launcher that printed no URL
Refetch ==
    /\ pc = "refetch"
    /\ \E resp \in Responses(ResolvePort(args), browserUp) :
        /\ fetches' = Append(fetches, [port |-> ResolvePort(args), resp |-> resp])
        /\ IF get_ws_url(resp).ok
           THEN /\ ws_url' = get_ws_url(resp).value
                /\ pc' = "connect"
                /\ UNCHANGED outVars
           ELSE /\ ws_url' = ws_url
                /\ LaunchFailed("get_ws_url")
    /\ UNCHANGED <<run, args, launches, attachVars, actionVars, envVars,
                   studyVars>>

\* lines 296-304: connect_over_cdp succeeds; the browser shows its contexts.
\* ensure_chrome_running has returned and nothing below reaches it: the
\* record of its calls is dropped here
Connect ==
    /\ pc = "connect"
    /\ \E ctxs \in ContextLists :
        /\ contexts' = ctxs
        /\ browserCtx' = Range(ctxs)
    /\ ops' = Append(ops, "connect_over_cdp")
    /\ fetches' = <<>>
    /\ launches' = <<>>
    /\ pc' = "attach"
    /\ UNCHANGED <<run, args, ws_url, context, pagesCreated, pageOpen, page,
                   performed, risk, results, idx, seen, outVars, envVars, studyVars>>

\* lines 299-301: connect_over_cdp raises
ConnectFails ==
    /\ pc = "connect"
    /\ ops' = ops \o <<"connect_over_cdp", "raised">>
    /\ ExitWith(FailureDoc(<<"cdp_connect_failed", "connect">>))
    /\ UNCHANGED <<run, args, resolveVars, attachVars, page, performed, risk, results,
                   idx, seen, envVars, studyVars>>

\* lines 313-318: the first step of the chosen action
Dispatch(action) ==
    CASE action = "read" -> "read_goto"
      [] action = "screenshot" -> "shot_makedirs"
      [] action = "interact" -> "int_goto"

\* a faulty variant of BindContext: browser.new_context()
BindNewContext(ctxs) == "new"

\* line 309: context = contexts[0]
BindContext(ctxs) == ctxs[1]

\* a faulty variant of HasNoContext: no check of the list
NeverNoContext(ctxs) == FALSE

\* line 305: if not contexts
HasNoContext(ctxs) == ctxs = <<>>

\* lines 305-307: no context, exit
NoContext ==
    /\ pc = "attach"
    /\ HasNoContext(contexts)
    /\ ExitWith(FailureDoc(<<"no_browser_context_found">>))
    /\ UNCHANGED <<run, args, resolveVars, attachVars, actionVars, envVars,
                   studyVars>>

\* lines 309-310: bind to the context and open the page in it (contexts[0]
\* of an empty list is an IndexError nothing catches: traceback, status 1)
Attach ==
    /\ pc = "attach"
    /\ ~HasNoContext(contexts)
    /\ IF contexts = <<>>
       THEN /\ exitCode' = 1
            /\ pc' = "exited"
            /\ UNCHANGED <<context, browserCtx, pagesCreated, pageOpen, ops>>
       ELSE /\ context' = BindContext(contexts)
            /\ browserCtx' = browserCtx \cup {context'}
            /\ ops' = Append(ops, "new_page")
            /\ pagesCreated' = pagesCreated + 1
            /\ pageOpen' = TRUE
            /\ pc' = Dispatch(args.action)
            /\ UNCHANGED exitCode
    /\ UNCHANGED <<run, args, resolveVars, contexts, page, performed, risk, results, idx, seen,
                   result, printed, envVars, studyVars>>

\* line 310: context.new_page() raises; nothing catches it, the interpreter
\* prints a traceback and exits with status 1
NewPageFails ==
    /\ pc = "attach"
    /\ ~HasNoContext(contexts)
    /\ contexts # <<>>
    /\ context' = BindContext(contexts)
    /\ browserCtx' = browserCtx \cup {context'}
    /\ ops' = ops \o <<"new_page", "raised">>
    /\ exitCode' = 1
    /\ pc' = "exited"
    /\ UNCHANGED <<run, args, resolveVars, contexts, pagesCreated, pageOpen,
                   page, performed, risk, results, idx, seen, result, printed, envVars,
                   studyVars>>

-----------------------------------------------------------------------------
(* The page as the environment shows it *)

\* "a.io/Verify": where a site may redirect a flagged session
VerifyUrl == <<97, 46, 105, 111, 47, 86, 101, 114, 105, 102, 121>>

\* "hi ": page content without a risk keyword
CleanContent == <<104, 105, 32>>

\* "Captcha": page content with a risk keyword, not in lower case
CaptchaContent == <<67, 97, 112, 116, 99, 104, 97>>

\* the pages a navigation to url may end on
LoadedPages(url) ==
    {[url |-> url, content |-> CleanContent, readable |-> TRUE],
     [url |-> url, content |-> CaptchaContent, readable |-> TRUE],
     [url |-> VerifyUrl, content |-> CleanContent, readable |-> TRUE],
     [url |-> VerifyUrl, content |-> CaptchaContent, readable |-> TRUE],
     [url |-> VerifyUrl, content |-> CaptchaContent, readable |-> FALSE]}

\* the length threshold of the content probe (line 172)
MinContentLen == 50

\* the character cap of extracted content (lines 173, 178)
ContentCap == 10000

\* a text, by the element it comes from and its length
Text(src, len) == [src |-> src, len |-> len]

\* the lengths an element's text may have
TextLens == {10, MinContentLen, MinContentLen + 1, ContentCap + 1}

\* text[:n]
Truncate(t, n) == [t EXCEPT !.len = IF @ > n THEN n ELSE @]

-----------------------------------------------------------------------------
(* Steps shared by the actions *)

\* a faulty variant of AfterException: the page is closed after the try block
\* rather than in a finally clause, so an exception passes it by
AfterExceptionNoFinally == "print"

\* lines 321-324: where control goes once the except clause has run
AfterException == "finally"

\* lines 321-322: an exception e leaves the action; main catches it
Raise(e) ==
    /\ result' = FailureDoc(<<e>>)
    /\ pc' = AfterException

\* lines 314-318: the action returns doc to main
Return(doc) ==
    /\ result' = doc
    /\ pc' = "finally"

\* page.goto (lines 138, 199, 230): the navigation ends on a page and the
\* action goes on at next, or it raises
Goto(next) ==
    \/ /\ ops' = Append(ops, "goto")
       /\ page' \in LoadedPages(args.url)
       /\ pc' = next
       /\ UNCHANGED result
    \/ /\ ops' = ops \o <<"goto", "raised">>
       /\ Raise("goto")
       /\ UNCHANGED page

\* a faulty variant of AfterWaitRaised: the exception leaves the action
AfterWaitRaisedFatal(next) == "finally"

\* lines 143-144, 150-151, 202-203: except Exception: pass
AfterWaitRaised(next) == next

\* a best-effort wait (lines 141-144, 148-151, 200-203): its exception is
\* swallowed and the action goes on at next either way
BestEffort(call, next) ==
    \/ /\ ops' = Append(ops, call)
       /\ pc' = next
    \/ /\ ops' = ops \o <<call, "raised">>
       /\ pc' = AfterWaitRaised(next)

\* human_delay (lines 80-82)
Delay(next) ==
    /\ ops' = Append(ops, "human_delay")
    /\ pc' = next

\* a faulty variant of RiskGate: the verdict is not looked at
RiskGateOpen(r) == FALSE

\* lines 156, 207, 234: if risk["detected"]
RiskGate(r) == r.detected

\* a faulty variant of RiskCheck: the action goes on to its Perform step without
\* running the classifier
RiskCheckSkipped(next) ==
    /\ pc' = next
    /\ UNCHANGED <<ops, risk, result>>

\* lines 155-162, 206-212, 233-239: the classifier runs (page.url may raise,
\* which leaves the action); a flagged page ends the action, a clean one
\* lets it go on at next
RiskCheck(next) ==
    \/ /\ ops' = Append(ops, "detect_risk_control")
       /\ risk' = detect_risk_control(page)
       /\ IF RiskGate(risk')
          THEN Return(RiskDoc(args.action, risk'))
          ELSE pc' = next /\ UNCHANGED result
    \/ /\ ops' = ops \o <<"detect_risk_control", "raised">>
       /\ Raise("url")
       /\ UNCHANGED risk

\* lines 189-190, 222-223, 258-259: page.url and page.title() for the
\* success result
Report(key, payload) ==
    \/ /\ ops' = ops \o <<"url", "title">>
       /\ Return(SuccessDoc(key, page.url, payload))
    \/ /\ ops' = ops \o <<"url", "title", "raised">>
       /\ Raise("title")

-----------------------------------------------------------------------------
(* action_read *)

\* line 138
ReadGoto ==
    /\ pc = "read_goto"
    /\ Goto("read_idle")
    /\ UNCHANGED <<run, args, resolveVars, attachVars, risk, performed, results, idx, seen,
                   printed, exitCode, envVars, studyVars>>

\* lines 141-144 (then line 147: if wait_for)
ReadIdle ==
    /\ pc = "read_idle"
    /\ BestEffort("wait_for_load_state",
                  IF args.wait_for # None THEN "read_wait_for" ELSE "read_delay")
    /\ UNCHANGED <<run, args, resolveVars, attachVars, page, performed, risk, results,
                   idx, seen, outVars, envVars, studyVars>>

\* lines 147-151
ReadWaitFor ==
    /\ pc = "read_wait_for"
    /\ BestEffort("wait_for_selector", "read_delay")
    /\ UNCHANGED <<run, args, resolveVars, attachVars, page, performed, risk, results,
                   idx, seen, outVars, envVars, studyVars>>

\* line 153
ReadDelay ==
    /\ pc = "read_delay"
    /\ Delay("read_risk")
    /\ UNCHANGED <<run, args, resolveVars, attachVars, page, performed, risk, results,
                   idx, seen, outVars, envVars, studyVars>>

\* lines 155-165
ReadRisk ==
    /\ pc = "read_risk"
    /\ RiskCheck(IF args.selectors = <<>> THEN "read_probe" ELSE "read_selectors")
    /\ UNCHANGED <<run, args, resolveVars, attachVars, page, performed, results, idx, seen,
                   printed, exitCode, envVars, studyVars>>

\* line 167: the containers probed, in order
Containers == <<"article", "main", "[role='main']", ".content", "#content", "body">>

\* results[key] = value on a dict kept as the list of its items
DictSet(d, key, value) ==
    IF \E i \in 1..Len(d) : d[i].key = key
    THEN [i \in 1..Len(d) |->
             IF d[i].key = key THEN [key |-> key, value |-> value] ELSE d[i]]
    ELSE Append(d, [key |-> key, value |-> value])

\* an extracted text, None and f"error: {e}" as values of results
TextValue(t) == [kind |-> "text", text |-> t, msg |-> ""]
NoneValue == [kind |-> "null", text |-> Text("", 0), msg |-> ""]
ErrorValue(e) == [kind |-> "error", text |-> Text("", 0), msg |-> e]

\* what a probe may see of a container
Observations(sel) ==
    {Observation("lookup_raised", Text("", 0)),
     Observation("absent", Text("", 0)),
     Observation("read_raised", Text("", 0))}
    \cup {Observation("text", Text(sel, n)) : n \in TextLens}

\* the calls a probe makes before it has seen o
Called(o) ==
    IF o.kind \in {"lookup_raised", "absent"} THEN {"query_selector"}
    ELSE {"query_selector", "inner_text"}

\* a faulty variant of Qualifies: a text of exactly the threshold length is
\* taken
QualifiesFromThreshold(o) ==
    /\ o.kind = "text"
    /\ o.text.len >= MinContentLen

\* lines 169-172: if el and len(text) > 50
Qualifies(o) ==
    /\ o.kind = "text"
    /\ o.text.len > MinContentLen

\* lines 167-176: one container of the heuristic probe: the first one seen
\* to qualify gives the content and ends the loop; any other observation,
\* an exception included, moves on to the next container
ReadProbe ==
    /\ pc = "read_probe"
    /\ idx <= Len(Containers)
    /\ \E o \in Observations(Containers[idx]) :
        /\ seen' = o
        /\ performed' = performed \cup Called(o)
        /\ IF Qualifies(o)
           THEN /\ results' = DictSet(results, "content",
                                      TextValue(Truncate(o.text, ContentCap)))
                /\ pc' = "read_return"
                /\ UNCHANGED idx
           ELSE /\ idx' = idx + 1
                /\ pc' = IF idx < Len(Containers)
                         THEN "read_probe" ELSE "read_fallback"
                /\ UNCHANGED results
    /\ UNCHANGED <<run, args, resolveVars, attachVars, page, ops, risk,
                   outVars, envVars, studyVars>>

\* lines 177-178: no container qualified
ReadFallback ==
    /\ pc = "read_fallback"
    /\ performed' = performed \cup {"page_inner_text"}
    /\ \/ /\ seen' = Observation("read_raised", Text("", 0))
          /\ Raise("inner_text")
          /\ UNCHANGED results
       \/ \E n \in TextLens :
          /\ seen' = Observation("text", Text("body", n))
          /\ results' = DictSet(results, "content",
                                TextValue(Truncate(Text("body", n), ContentCap)))
          /\ pc' = "read_return"
          /\ UNCHANGED result
    /\ UNCHANGED <<run, args, resolveVars, attachVars, page, ops, risk, idx,
                   printed, exitCode, envVars, studyVars>>

\* a faulty variant of ReadAfter: an exception on one selector ends the loop
ReadAfterAbortOnError(kind, i, n) ==
    IF kind = "error" THEN "read_return"
    ELSE IF i < n THEN "read_selectors" ELSE "read_return"

\* lines 180-187: where the loop goes after the i-th of n selectors has
\* given a value of this kind: on to the next one, whatever the kind
ReadAfter(kind, i, n) == IF i < n THEN "read_selectors" ELSE "read_return"

\* lines 180-185: one selector of the list
ReadSelector ==
    /\ pc = "read_selectors"
    /\ idx <= Len(args.selectors)
    /\ LET sel == args.selectors[idx]
           record(called, value) ==
               /\ performed' = performed \cup called
               /\ results' = DictSet(results, sel, value)
               /\ pc' = ReadAfter(value.kind, idx, Len(args.selectors))
       IN  \/ record({"query_selector"}, ErrorValue("query_selector"))
           \/ record({"query_selector"}, NoneValue)
           \/ record({"query_selector", "inner_text"}, ErrorValue("inner_text"))
           \/ record({"query_selector", "inner_text"}, TextValue(Text(sel, 10)))
    /\ idx' = idx + 1
    /\ UNCHANGED seen
    /\ UNCHANGED <<run, args, resolveVars, attachVars, page, ops, risk,
                   outVars, envVars, studyVars>>

\* lines 187-192
ReadReturn ==
    /\ pc = "read_return"
    /\ Report("results", results)
    /\ UNCHANGED <<run, args, resolveVars, attachVars, page, performed, risk, results,
                   idx, seen, printed, exitCode, envVars, studyVars>>

-----------------------------------------------------------------------------
(* action_screenshot *)

\* SCREENSHOT_DIR (line 31)
SCREENSHOT_DIR == "~/.crewly/screenshots"

\* lines 215-216: os.path.join(SCREENSHOT_DIR, f"stealth_{timestamp}.png")
ScreenshotPath(timestamp) == [dir |-> SCREENSHOT_DIR, stamp |-> timestamp]

\* line 197
ShotMakedirs ==
    /\ pc = "shot_makedirs"
    /\ \/ /\ ops' = Append(ops, "makedirs")
          /\ pc' = "shot_goto"
          /\ UNCHANGED result
       \/ /\ ops' = ops \o <<"makedirs", "raised">>
          /\ Raise("makedirs")
    /\ UNCHANGED <<run, args, resolveVars, attachVars, page, performed, risk, results,
                   idx, seen, printed, exitCode, envVars, studyVars>>

\* line 199
ShotGoto ==
    /\ pc = "shot_goto"
    /\ Goto("shot_idle")
    /\ UNCHANGED <<run, args, resolveVars, attachVars, risk, performed, results, idx, seen,
                   printed, exitCode, envVars, studyVars>>

\* lines 200-203
ShotIdle ==
    /\ pc = "shot_idle"
    /\ BestEffort("wait_for_load_state", "shot_delay")
    /\ UNCHANGED <<run, args, resolveVars, attachVars, page, performed, risk, results,
                   idx, seen, outVars, envVars, studyVars>>

\* line 204
ShotDelay ==
    /\ pc = "shot_delay"
    /\ Delay("shot_risk")
    /\ UNCHANGED <<run, args, resolveVars, attachVars, page, performed, risk, results,
                   idx, seen, outVars, envVars, studyVars>>

\* lines 206-212
ShotRisk ==
    /\ pc = "shot_risk"
    /\ RiskCheck("shot_capture")
    /\ UNCHANGED <<run, args, resolveVars, attachVars, page, performed, results, idx, seen,
                   printed, exitCode, envVars, studyVars>>

\* the latest timestamp the clock is known to have shown: that of the last
\* file written
LastStamp == IF files = <<>> THEN 0 ELSE files[Len(files)].stamp

\* lines 214-218: the clock is read in whole seconds (it may or may not
\* have moved on since the last capture) and the image is written
ShotCapture ==
    /\ pc = "shot_capture"
    /\ performed' = performed \cup {"screenshot"}
    /\ \E timestamp \in LastStamp..MaxTime :
        \/ /\ files' = Append(files, ScreenshotPath(timestamp))
           /\ results' = <<ScreenshotPath(timestamp)>>
           /\ pc' = "shot_return"
           /\ UNCHANGED result
        \/ /\ Raise("screenshot")
           /\ UNCHANGED <<files, results>>
    /\ UNCHANGED <<run, args, resolveVars, attachVars, page, ops, risk, idx, seen,
                   printed, exitCode, browserUp, studyVars>>

\* lines 220-225
ShotReturn ==
    /\ pc = "shot_return"
    /\ Report("screenshot", results)
    /\ UNCHANGED <<run, args, resolveVars, attachVars, page, performed, risk, results,
                   idx, seen, printed, exitCode, envVars, studyVars>>

-----------------------------------------------------------------------------
(* action_interact *)

\* line 230 (no wait for the network to go idle follows)
IntGoto ==
    /\ pc = "int_goto"
    /\ Goto("int_delay")
    /\ UNCHANGED <<run, args, resolveVars, attachVars, risk, performed, results, idx, seen,
                   printed, exitCode, envVars, studyVars>>

\* line 231
IntDelay ==
    /\ pc = "int_delay"
    /\ Delay("int_risk")
    /\ UNCHANGED <<run, args, resolveVars, attachVars, page, performed, risk, results,
                   idx, seen, outVars, envVars, studyVars>>

\* lines 233-241
IntRisk ==
    /\ pc = "int_risk"
    /\ RiskCheck(IF args.selectors = <<>> THEN "int_return" ELSE "int_selectors")
    /\ UNCHANGED <<run, args, resolveVars, attachVars, page, performed, results, idx, seen,
                   printed, exitCode, envVars, studyVars>>

\* lines 250, 252, 254: the record of one selector
Outcome(sel, action, error) ==
    [selector |-> sel, action |-> action, error |-> error,
     success |-> action = "clicked"]

\* a faulty variant of IntAfter: an exception on one selector ends the loop
IntAfterStopOnError(action, i, n) ==
    IF action = "error" THEN "int_return"
    ELSE IF i < n THEN "int_selectors" ELSE "int_return"

\* lines 242, 251-256: where the loop goes after the i-th of n selectors has
\* ended with action: on to the next one, whatever the outcome
IntAfter(action, i, n) == IF i < n THEN "int_selectors" ELSE "int_return"

\* lines 242-254: one selector of the list
IntSelector ==
    /\ pc = "int_selectors"
    /\ idx <= Len(args.selectors)
    /\ LET sel == args.selectors[idx]
           record(called, action, error) ==
               /\ performed' = performed \cup called
               /\ results' = Append(results, Outcome(sel, action, error))
               /\ pc' = IntAfter(action, idx, Len(args.selectors))
       IN  \/ record({"query_selector"}, "error", "query_selector")
           \/ record({"query_selector"}, "not_found", "")
           \/ record({"query_selector", "scroll_into_view"},
                     "error", "scroll_into_view")
           \/ record({"query_selector", "scroll_into_view", "click"},
                     "error", "click")
           \/ record({"query_selector", "scroll_into_view", "click"},
                     "clicked", "")
    /\ idx' = idx + 1
    /\ UNCHANGED seen
    /\ UNCHANGED <<run, args, resolveVars, attachVars, page, ops, risk,
                   outVars, envVars, studyVars>>

\* lines 256-261
IntReturn ==
    /\ pc = "int_return"
    /\ Report("interactions", results)
    /\ UNCHANGED <<run, args, resolveVars, attachVars, page, performed, risk, results,
                   idx, seen, printed, exitCode, envVars, studyVars>>

-----------------------------------------------------------------------------
(* main, after the action *)

\* lines 323-324: page.close()
Finally ==
    /\ pc = "finally"
    /\ ops' = Append(ops, "close")
    /\ pageOpen' = FALSE
    /\ pc' = "print"
    /\ UNCHANGED <<run, args, resolveVars, contexts, context, browserCtx,
                   pagesCreated, page, performed, risk, results, idx, seen, outVars, envVars,
                   studyVars>>

\* a faulty variant of MainExitStatus: the status follows the success field
ExitStatusFromSuccess(doc) == IF doc.success THEN 0 ELSE 1

\* the end of main (line 326): nothing calls sys.exit, the status is 0
\* whatever the document says
MainExitStatus(doc) == 0

\* line 326, then the end of main
PrintResult ==
    /\ pc = "print"
    /\ printed' = Append(printed, result)
    /\ exitCode' = MainExitStatus(result)
    /\ pc' = "exited"
    /\ UNCHANGED <<run, args, resolveVars, attachVars, actionVars, result,
                   envVars, studyVars>>

\* the script is invoked again; the browser, the clock and the files stay
Restart ==
    /\ pc = "exited"
    /\ run < MaxRuns
    /\ run' = run + 1
    /\ pc' = "start"
    /\ args' = NoArgs
    /\ fetches' = <<>>
    /\ launches' = <<>>
    /\ ws_url' = <<>>
    /\ contexts' = <<>>
    /\ context' = None
    /\ browserCtx' = {}
    /\ pagesCreated' = 0
    /\ pageOpen' = FALSE
    /\ page' = [url |-> <<>>, content |-> <<>>, readable |-> TRUE]
    /\ ops' = <<>>
    /\ performed' = {}
    /\ risk' = NoRisk
    /\ results' = <<>>
    /\ idx' = 1
    /\ seen' = NoObservation
    /\ result' = EmptyDoc
    /\ printed' = <<>>
    /\ exitCode' = NoExit
    /\ UNCHANGED <<envVars, studyVars>>

Next ==
    \/ ParseArgs \/ ParseArgsFails \/ ImportOk \/ ImportFails
    \/ FirstFetch \/ Launch \/ LaunchTimesOut \/ Refetch
    \/ Connect \/ ConnectFails \/ NoContext \/ Attach \/ NewPageFails
    \/ ReadGoto \/ ReadIdle \/ ReadWaitFor \/ ReadDelay \/ ReadRisk
    \/ ReadProbe \/ ReadFallback \/ ReadSelector \/ ReadReturn
    \/ ShotMakedirs \/ ShotGoto \/ ShotIdle \/ ShotDelay \/ ShotRisk
    \/ ShotCapture \/ ShotReturn
    \/ IntGoto \/ IntDelay \/ IntRisk \/ IntSelector \/ IntReturn
    \/ Finally \/ PrintResult \/ Restart

Spec == Init /\ [][Next]_vars

-----------------------------------------------------------------------------
(* The classifier on its own: detect_risk_control applied to pages built   *)
(* from text fragments, before and after a risk keyword is added to the    *)
(* page text                                                               *)

\* "a.io/CHALLENGE?x": a URL with a token in upper case
ChallengeUrl ==
    <<97, 46, 105, 111, 47, 67, 72, 65, 76, 76, 69, 78, 71, 69, 63, 120>>

\* the pieces page text is built from: 滑块验证, 码, "Captcha", "hi ",
\* "rate limit"
Fragments ==
    {<<28369, 22359, 39564, 35777>>,
     <<30721>>,
     CaptchaContent,
     CleanContent,
     <<114, 97, 116, 101, 32, 108, 105, 109, 105, 116>>}

\* the concatenation of a sequence of texts
RECURSIVE Concat(_)
Concat(parts) ==
    IF parts = <<>> THEN <<>> ELSE Head(parts) \o Concat(Tail(parts))

\* the pages classified
StudyPages ==
    [url : {TargetUrl, VerifyUrl, ChallengeUrl},
     content : {Concat(parts) : parts \in SeqsUpTo(Fragments, MaxFragments)},
     readable : BOOLEAN]

\* text with kw inserted after its first pos code points
Insert(text, pos, kw) ==
    SubSeq(text, 1, pos) \o kw \o SubSeq(text, pos + 1, Len(text))

InitClassify ==
    /\ pc = "classify"
    /\ run = 1
    /\ args = NoArgs
    /\ fetches = <<>>
    /\ launches = <<>>
    /\ ws_url = <<>>
    /\ contexts = <<>>
    /\ context = None
    /\ browserCtx = {}
    /\ pagesCreated = 0
    /\ pageOpen = FALSE
    /\ page \in StudyPages
    /\ ops = <<>>
    /\ performed = {}
    /\ risk = NoRisk
    /\ results = <<>>
    /\ idx = 1
    /\ seen = NoObservation
    /\ result = EmptyDoc
    /\ printed = <<>>
    /\ exitCode = NoExit
    /\ browserUp = {}
    /\ files = <<>>
    /\ before = <<>>
    /\ added = <<>>

\* risk = detect_risk_control(page) (lines 155, 206, 233)
Classify ==
    /\ pc = "classify"
    /\ risk' = detect_risk_control(page)
    /\ pc' = "classified"
    /\ UNCHANGED <<run, args, resolveVars, attachVars, page, ops, performed,
                   results, idx, seen, outVars, envVars, studyVars>>

\* the site adds a risk keyword somewhere in the page text; the page is
\* classified again
AddKeyword ==
    /\ pc = "classified"
    /\ added = <<>>
    /\ \E k \in 1..Len(risk_keywords), pos \in 0..Len(page.content) :
        /\ page' = [page EXCEPT !.content = Insert(@, pos, risk_keywords[k])]
        /\ added' = <<[kw |-> risk_keywords[k], pos |-> pos]>>
    /\ before' = risk.signals
    /\ pc' = "classify"
    /\ UNCHANGED <<run, args, resolveVars, attachVars, ops, performed, risk,
                   results, idx, seen, outVars, browserUp, files>>

NextClassify == Classify \/ AddKeyword

SpecClassify == InitClassify /\ [][NextClassify]_vars

-----------------------------------------------------------------------------
(* Properties *)

\* the position of the first x in s, 0 if there is none
IndexOf(s, x) ==
    LET at == {i \in 1..Len(s) : s[i] = x}
    IN  IF at = {} THEN 0 ELSE CHOOSE i \in at : \A j \in at : i <= j

\* the navigation has returned without raising
Navigated ==
    /\ IndexOf(ops, "goto") > 0
    /\ \/ IndexOf(ops, "goto") = Len(ops)
       \/ ops[IndexOf(ops, "goto") + 1] # "raised"

\* the main function is past the action
ActionOver == pc \in {"finally", "print", "exited"}

\* C1: in read, screenshot and interact alike, once the classifier has
\* returned detected = true the action is over, its result is the failure
\* risk_control_detected carrying the classifier's signals, that is the
\* document printed, and no Perform operation is invoked in the invocation.
C1_RiskAbort ==
    (risk.ran /\ risk.detected) =>
        /\ ActionOver
        /\ performed = {}
        /\ result.success = FALSE
        /\ result.error = <<"risk_control_detected">>
        /\ result.signals = risk.signals
        /\ pc = "exited" => printed = <<result>>

\* C1 witness: an interact invocation has ended on a page flagged by its URL
\* and by its content.
C1_Witness ==
    /\ pc = "exited"
    /\ args.action = "interact"
    /\ args.selectors # <<>>
    /\ risk.detected
    /\ Len(risk.signals) = 2
    /\ printed = <<RiskDoc("interact", risk)>>

\* C2: a Perform operation is invoked only after the navigation to the
\* target URL has returned and the classifier, run after that navigation on
\* the page it ended on, has returned detected = false; whenever the
\* classifier runs it runs after the navigation.
C2_RiskCheckBeforePerform ==
    /\ performed # {} =>
        /\ risk.ran
        /\ ~risk.detected
    /\ risk.ran =>
        /\ Navigated
        /\ IndexOf(ops, "goto") < IndexOf(ops, "detect_risk_control")
        /\ risk = detect_risk_control(page)

\* C2 witness: a read has extracted text after a check that found nothing.
C2_Witness ==
    /\ args.action = "read"
    /\ "inner_text" \in performed
    /\ risk.ran
    /\ ~risk.detected
    /\ pc = "read_return"

\* C3: an invocation creates at most one page, and the page it created is
\* closed when main has left its try statement, whichever way the action
\* ended: before the result is printed and before the process ends.
C3_OnePageClosed ==
    /\ pagesCreated <= 1
    /\ pageOpen => pagesCreated = 1
    /\ pc \in {"print", "exited"} => ~pageOpen
    /\ (pc \in {"print", "exited"} /\ pagesCreated = 1) =>
           ops[Len(ops)] = "close"

\* C3 witness: interact handled an error of one selector, then page.title()
\* raised; the invocation has ended with its page closed.
C3_Witness ==
    /\ pc = "exited"
    /\ args.action = "interact"
    /\ pagesCreated = 1
    /\ ~pageOpen
    /\ \E i \in 1..Len(results) : results[i].action = "error"
    /\ result = FailureDoc(<<"title">>)

\* C4: the program creates no browser context, and the context it binds to,
\* in which it opens its page, is the first of the contexts that the
\* browser had when it connected.
C4_ExistingContext ==
    /\ browserCtx \subseteq Range(contexts)
    /\ context # None =>
        /\ contexts # <<>>
        /\ context = contexts[1]
    /\ pagesCreated > 0 => context # None

\* C4 witness: the page is open in the first of two contexts.
C4_Witness ==
    /\ pageOpen
    /\ Len(contexts) = 2
    /\ context = contexts[1]
    /\ performed # {}

\* connect_over_cdp has returned a browser
Connected ==
    /\ ops # <<>>
    /\ ops[1] = "connect_over_cdp"
    /\ Len(ops) > 1 => ops[2] # "raised"

\* C5: when the connected browser shows no context, the invocation does
\* nothing more than end: it prints the failure no_browser_context_found and
\* exits with a status other than 0, without connecting again, creating a
\* page or navigating.
C5_NoContextTerminal ==
    (Connected /\ contexts = <<>>) =>
        /\ pc \in {"attach", "exited"}
        /\ ops = <<"connect_over_cdp">>
        /\ pagesCreated = 0
        /\ performed = {}
        /\ pc = "exited" =>
            /\ printed = <<FailureDoc(<<"no_browser_context_found">>)>>
            /\ exitCode # NoExit
            /\ exitCode # 0

\* C5 witness: an invocation has ended on a browser without contexts.
C5_Witness ==
    /\ pc = "exited"
    /\ Connected
    /\ contexts = <<>>
    /\ exitCode = 1

\* an answer with status 200 and a well-formed body holding the session URL
WellFormed(resp) ==
    /\ resp.connected
    /\ resp.status = 200
    /\ resp.parseable
    /\ resp.hasField

\* C6: when the metadata fetch is answered with status 200 and a
\* well-formed body holding the session URL, ensure_chrome_running returns
\* that value as it is, after that one fetch and without running the
\* launcher; the launcher is about to run only when no browser answers on
\* the port, in the first invocation and in every later one.
C6_ResolveRunning ==
    /\ (fetches # <<>> /\ WellFormed(fetches[1].resp)) =>
        /\ pc \in {"connect", "exited"}
        /\ ws_url = fetches[1].resp.field
        /\ Len(fetches) = 1
        /\ launches = <<>>
    /\ pc = "launch" => ResolvePort(args) \notin browserUp

\* C6 witness: a later invocation resolves against the browser that is up.
C6_Witness ==
    /\ run > 1
    /\ pc = "connect"
    /\ fetches # <<>>
    /\ WellFormed(fetches[1].resp)
    /\ ws_url = BrowserWs(CDP_PORT)
    /\ launches = <<>>

\* C7: when the first metadata fetch fails (refused, a status other than
\* 200, a body that cannot be parsed or lacks the field) the launcher is run
\* next, and once only; when the launcher ends with a status other than 0
\* the invocation ends there: no second fetch, no connect, the failure
\* chrome_launch_failed printed and exit status 1.
C7_LaunchOnFailure ==
    /\ Len(launches) <= 1
    /\ (fetches # <<>> /\ ~WellFormed(fetches[1].resp)) =>
        IF pc = "launch" THEN launches = <<>> ELSE Len(launches) = 1
    /\ (launches # <<>> /\ launches[1].rc # 0) =>
        /\ pc = "exited"
        /\ Len(fetches) = 1
        /\ ops = <<>>
        /\ pagesCreated = 0
        /\ Len(printed) = 1
        /\ printed[1].success = FALSE
        /\ printed[1].error[1] = "chrome_launch_failed"
        /\ exitCode = 1

\* C7 witness: the port answered 404 and the launcher ended with status 1.
C7_Witness ==
    /\ pc = "exited"
    /\ Len(fetches) = 1
    /\ fetches[1].resp.status = 404
    /\ Len(launches) = 1
    /\ launches[1].rc = 1
    /\ exitCode = 1

\* C8: every metadata fetch goes to the port given with --cdp-port and the
\* launcher is given that port.
C8_CallerPort ==
    /\ \A i \in 1..Len(fetches) : fetches[i].port = args.cdp_port
    /\ \A i \in 1..Len(launches) : launches[i].port = args.cdp_port

\* C9: in each of the three actions, what lies between the navigation and
\* the classifier is the best-effort wait for the network to go idle, first,
\* and the hesitation delay, last.
C9_SameSettle ==
    risk.ran =>
        /\ IndexOf(ops, "goto") + 1 < IndexOf(ops, "detect_risk_control") - 1
        /\ ops[IndexOf(ops, "goto") + 1] = "wait_for_load_state"
        /\ ops[IndexOf(ops, "detect_risk_control") - 1] = "human_delay"

-----------------------------------------------------------------------------
(* Properties of the classifier *)

\* the page text before the keyword was added
TextBefore ==
    SubSeq(page.content, 1, added[1].pos)
        \o SubSeq(page.content, added[1].pos + Len(added[1].kw) + 1,
                  Len(page.content))

\* the keyword was added inside an occurrence of a listed keyword in the
\* text as it was
SplitsKeyword ==
    \E k \in 1..Len(risk_keywords), i \in 0..Len(TextBefore) :
        /\ i + Len(risk_keywords[k]) <= Len(TextBefore)
        /\ SubSeq(Lower(TextBefore), i + 1, i + Len(risk_keywords[k]))
               = Lower(risk_keywords[k])
        /\ i < added[1].pos
        /\ added[1].pos < i + Len(risk_keywords[k])

\* what the classifier returns is what the two checks say: captcha_url
\* exactly for a URL holding a token, keyword:<t> exactly for the keywords
\* found in readable content, nothing else and nothing twice, and detected
\* exactly when there is a signal
SignalsAsSpecified ==
    pc = "classified" =>
        /\ (CaptchaUrlSignal \in Range(risk.signals)) <=>
               \E i \in 1..Len(url_tokens) : Contains(Lower(page.url), url_tokens[i])
        /\ \A k \in 1..Len(risk_keywords) :
               (KeywordSignal(risk_keywords[k]) \in Range(risk.signals)) <=>
                   /\ page.readable
                   /\ Contains(Lower(page.content), Lower(risk_keywords[k]))
        /\ Range(risk.signals) \subseteq
               {CaptchaUrlSignal} \cup
               {KeywordSignal(risk_keywords[k]) : k \in 1..Len(risk_keywords)}
        /\ Cardinality(Range(risk.signals)) = Len(risk.signals)
        /\ risk.detected <=> risk.signals # <<>>

\* C10 as stated: the signals are as specified, and a page has no fewer
\* signals after a risk keyword was added to its text, wherever it was added.
C10_Original ==
    /\ SignalsAsSpecified
    /\ (pc = "classified" /\ added # <<>>) => Len(before) <= Len(risk.signals)

\* C10 as amended: the signals are as specified, and a page keeps every
\* signal it had after a risk keyword was added to its text at a place that
\* is not inside an occurrence of a listed keyword.
C10_Amended ==
    /\ SignalsAsSpecified
    /\ (pc = "classified" /\ added # <<>> /\ ~SplitsKeyword) =>
           Range(before) \subseteq Range(risk.signals)

\* C10 witness: a keyword was added between two parts of a text that held a
\* keyword in mixed case, on a page whose URL holds a token; the page had
\* both kinds of signal and has one more now.
C10_Witness ==
    /\ pc = "classified"
    /\ added # <<>>
    /\ ~SplitsKeyword
    /\ added[1].pos > 0
    /\ added[1].pos < Len(TextBefore)
    /\ page.readable
    /\ CaptchaUrlSignal \in Range(before)
    /\ KeywordSignal(risk_keywords[5]) \in Range(before)
    /\ Contains(TextBefore, CaptchaContent)
    /\ Len(risk.signals) = Len(before) + 1

\* C11: once interact has passed the risk check its log holds one outcome
\* per selector handled so far, in the order of the selector list; each is
\* clicked, not_found or error with a message; when the loop is over every
\* selector of the list has its outcome, whatever the earlier ones were, and
\* the success result carries the log.
C11_InteractLog ==
    (args.action = "interact" /\ risk.ran /\ ~risk.detected) =>
        /\ Len(results) <= Len(args.selectors)
        /\ \A i \in 1..Len(results) :
            /\ results[i].selector = args.selectors[i]
            /\ results[i].action \in {"clicked", "not_found", "error"}
            /\ results[i].action = "error" <=> results[i].error # ""
            /\ results[i].success <=> results[i].action = "clicked"
        /\ pc = "int_selectors" => Len(results) = idx - 1
        /\ pc # "int_selectors" => Len(results) = Len(args.selectors)
        /\ result.success => result.payload = results

\* C11 witness: the same selector given twice; the first attempt raised, the
\* second clicked, and both outcomes are printed.
C11_Witness ==
    /\ pc = "exited"
    /\ args.action = "interact"
    /\ args.selectors = <<"#a", "#a">>
    /\ Len(results) = 2
    /\ results[1].action = "error"
    /\ results[2].action = "clicked"
    /\ printed = <<SuccessDoc("interactions", page.url, results)>>

\* the selectors of the list that read has handled so far
Handled ==
    IF pc = "read_selectors" THEN {args.selectors[i] : i \in 1..(idx - 1)}
    ELSE Range(args.selectors)

\* C12: once read with a non-empty selector list has passed the risk check,
\* the results hold exactly one entry for every selector handled so far: the
\* element's text, null, or an error string; when the loop is over every
\* given selector has its entry, whatever happened to the others; no
\* selector's failure makes the action fail, and the success result carries
\* the entries.
C12_ReadSelectors ==
    (args.action = "read" /\ args.selectors # <<>> /\ risk.ran
        /\ ~risk.detected) =>
        /\ {results[j].key : j \in 1..Len(results)} = Handled
        /\ \A j, k \in 1..Len(results) :
            results[j].key = results[k].key => j = k
        /\ \A j \in 1..Len(results) :
            /\ results[j].value.kind \in {"text", "null", "error"}
            /\ results[j].value.kind = "error" <=> results[j].value.msg # ""
            /\ results[j].value.kind = "text" =>
                results[j].value.text.src = results[j].key
        /\ pc \in {"read_selectors", "read_return"} => result = EmptyDoc
        /\ (ActionOver /\ ~result.success) => result.error = <<"title">>
        /\ result.success => result.payload = results

\* C12 witness: the lookup of the first selector raised, the second one's
\* text was extracted, and both entries are printed in a success result.
C12_Witness ==
    /\ pc = "exited"
    /\ args.action = "read"
    /\ args.selectors = <<"#missing", "#a">>
    /\ results = <<[key |-> "#missing", value |-> ErrorValue("query_selector")],
                   [key |-> "#a", value |-> TextValue(Text("#a", 10))]>>
    /\ printed = <<SuccessDoc("results", page.url, results)>>

\* the page was opened and the action called
Attempted ==
    \E i \in 1..Len(ops) :
        /\ ops[i] = "new_page"
        /\ i = Len(ops) \/ ops[i + 1] # "raised"

\* the error codes main prints before it exits on a failed precondition
PreconditionCodes ==
    {"patchright_not_installed", "chrome_launch_failed", "cdp_connect_failed",
     "no_browser_context_found"}

\* C13: an invocation that has ended has a non-zero exit status exactly when
\* the action was never attempted; each of the precondition failures
\* (library missing, launch or resolution failure, connection failure, no
\* context) ends it so, with no navigation and no Perform operation; every
\* invocation that attempted the action ends with status zero, also when
\* the document says success = false.
C13_ExitStatus ==
    pc = "exited" =>
        /\ exitCode # 0 <=> ~Attempted
        /\ exitCode \in {0, 1, 2}
        /\ (printed # <<>> /\ printed[1].error # <<>>
                /\ printed[1].error[1] \in PreconditionCodes) =>
            /\ exitCode # 0
            /\ ~Attempted
        /\ exitCode # 0 =>
            /\ IndexOf(ops, "goto") = 0
            /\ performed = {}
            /\ \/ /\ Len(printed) = 1
                  /\ printed[1].error[1] \in PreconditionCodes
               \/ /\ printed = <<>>
                  /\ IndexOf(ops, "new_page") > 0 \/ args = NoArgs

\* C13 witness: an invocation whose navigation raised has ended with a
\* success = false document and status zero.
C13_Witness ==
    /\ pc = "exited"
    /\ Attempted
    /\ printed = <<FailureDoc(<<"goto">>)>>
    /\ ~printed[1].success
    /\ exitCode = 0

\* the keys that carry an action's payload
PayloadKeys == {"results", "screenshot", "interactions"}

\* a document with a success field and one variant populated
OneVariant(doc) ==
    /\ "success" \in doc.keys
    /\ IF doc.success
       THEN /\ {"url", "title"} \subseteq doc.keys
            /\ Cardinality(doc.keys \cap PayloadKeys) = 1
            /\ "error" \notin doc.keys
            /\ doc.error = <<>>
       ELSE /\ "error" \in doc.keys
            /\ doc.error # <<>>
            /\ doc.keys \cap PayloadKeys = {}
            /\ doc.payload = <<>>

\* C14: every invocation that has ended has printed exactly one document,
\* and every document printed has a success field and exactly one variant
\* populated: success = true with url, title and one payload and no error,
\* or success = false with an error and no payload.
C14_OneDocument ==
    /\ \A i \in 1..Len(printed) : OneVariant(printed[i])
    /\ pc = "exited" => Len(printed) = 1

\* C15: when an action that has gathered per-selector outcomes is over,
\* whether it returned or raised, the document main reports carries the
\* outcomes gathered.
C15_PartialPreserved ==
    (ActionOver /\ Attempted /\ args.selectors # <<>> /\ results # <<>>) =>
        result.payload = results

\* C16: no two screenshot captures have written the same path: there are as
\* many files as captures.
C16_DistinctPaths ==
    \A i, j \in 1..Len(files) : files[i] = files[j] => i = j

\* C17: the launcher runs at most once and at most two metadata fetches are
\* made. After a launcher that exited with status zero: if its last line
\* starts with ws:// that line is the session URL and no fetch follows the
\* launch; otherwise exactly one more fetch is made, its session URL is
\* taken if it is well-formed, and if it is not the invocation ends with
\* the chrome_launch_failed document and a non-zero status.
C17_AfterLaunch ==
    /\ Len(launches) <= 1
    /\ Len(fetches) <= 2
    /\ (launches # <<>> /\ launches[1].rc = 0) =>
        IF StartsWith(launches[1].last, WsPrefix)
        THEN /\ Len(fetches) = 1
             /\ ws_url = launches[1].last
             /\ pc \in {"connect", "exited"}
             /\ pc = "exited" => printed[1].error[1] = "cdp_connect_failed"
        ELSE /\ pc = "refetch" => Len(fetches) = 1
             /\ pc # "refetch" =>
                 /\ Len(fetches) = 2
                 /\ IF WellFormed(fetches[2].resp)
                    THEN /\ ws_url = fetches[2].resp.field
                         /\ pc \in {"connect", "exited"}
                         /\ pc = "exited" =>
                             printed[1].error[1] = "cdp_connect_failed"
                    ELSE /\ pc = "exited"
                         /\ exitCode = 1
                         /\ printed = <<FailureDoc(<<"chrome_launch_failed",
                                                     "get_ws_url">>)>>

\* C17 witness: the launcher exited with status zero and printed nothing;
\* the one fetch made after it failed and the invocation has ended as a
\* launch failure.
C17_Witness ==
    /\ pc = "exited"
    /\ Len(launches) = 1
    /\ launches[1].rc = 0
    /\ launches[1].last = <<>>
    /\ Len(fetches) = 2
    /\ ~WellFormed(fetches[2].resp)
    /\ exitCode = 1
    /\ printed[1].error[1] = "chrome_launch_failed"

\* the best-effort waits
BestEffortCalls == {"wait_for_load_state", "wait_for_selector"}

\* call was made at position i of ops and raised
RaisedAt(i, calls) ==
    /\ i < Len(ops)
    /\ ops[i] \in calls
    /\ ops[i + 1] = "raised"

\* C18: an exception in the network-idle wait or in the wait for a selector
\* leaves the action on its normal path: no result is set, the next step is
\* the other wait or the hesitation delay, and the action ends only at or
\* after the risk check. An exception in the navigation ends the action
\* with the failure document carrying its message: the classifier never
\* runs, nothing is performed, the page is closed and the document printed.
C18_WaitsAndNavigation ==
    /\ \A i \in 1..Len(ops) :
        RaisedAt(i, BestEffortCalls) =>
            /\ i + 1 = Len(ops) =>
                /\ pc \in {"read_wait_for", "read_delay", "shot_delay"}
                /\ result = EmptyDoc
            /\ i + 1 < Len(ops) =>
                ops[i + 2] \in {"wait_for_selector", "human_delay"}
            /\ ActionOver => IndexOf(ops, "detect_risk_control") > 0
    /\ \A i \in 1..Len(ops) :
        RaisedAt(i, {"goto"}) =>
            /\ ActionOver
            /\ result = FailureDoc(<<"goto">>)
            /\ ~risk.ran
            /\ IndexOf(ops, "detect_risk_control") = 0
            /\ performed = {}
            /\ pc \in {"print", "exited"} =>
                /\ ~pageOpen
                /\ ops[Len(ops)] = "close"
            /\ pc = "exited" => printed = <<result>>

\* C18 witness: both best-effort waits of a read raised, and the read went
\* on to pass the risk check, extract text and report success.
C18_Witness ==
    /\ pc = "exited"
    /\ args.action = "read"
    /\ \E i \in 1..Len(ops) : RaisedAt(i, {"wait_for_load_state"})
    /\ \E i \in 1..Len(ops) : RaisedAt(i, {"wait_for_selector"})
    /\ risk.ran
    /\ "inner_text" \in performed
    /\ printed # <<>>
    /\ printed[1].success

\* the content heuristic of read is running or has run
Probing ==
    /\ args.action = "read"
    /\ args.selectors = <<>>
    /\ risk.ran
    /\ ~risk.detected

\* o is a text longer than the minimum length
LongEnough(o) ==
    /\ o.kind = "text"
    /\ o.text.len > MinContentLen

\* C19: read without selectors probes the containers in their fixed order.
\* It moves on exactly over containers seen not to qualify (lookup or read
\* raised, no element, text not longer than the threshold) and stops at the
\* first one seen with a longer text; the content is that text cut to the
\* cap. When all six have been passed over, the content is the body text
\* cut to the cap, however short.
C19_ContentProbe ==
    Probing =>
        /\ Containers = <<"article", "main", "[role='main']", ".content",
                          "#content", "body">>
        /\ pc = "read_probe" =>
            /\ idx \in 1..Len(Containers)
            /\ results = <<>>
            /\ idx > 1 => ~LongEnough(seen)
            /\ seen.kind = "text" => seen.text.src = Containers[idx - 1]
        /\ pc = "read_fallback" =>
            /\ idx = Len(Containers) + 1
            /\ results = <<>>
            /\ ~LongEnough(seen)
        /\ results # <<>> =>
            /\ Len(results) = 1
            /\ results[1].key = "content"
            /\ results[1].value = TextValue(Truncate(seen.text, ContentCap))
            /\ results[1].value.text.len <= ContentCap
            /\ seen.kind = "text"
            /\ IF idx <= Len(Containers)
               THEN /\ seen.text.src = Containers[idx]
                    /\ LongEnough(seen)
               ELSE seen.text.src = "body"
        /\ result.success => result.payload = results /\ results # <<>>

\* C19 witness: no container qualified, the body text has length 10 and is
\* reported as the content.
C19_Witness ==
    /\ pc = "exited"
    /\ Probing
    /\ idx = Len(Containers) + 1
    /\ seen = Observation("text", Text("body", 10))
    /\ printed = <<SuccessDoc("results", page.url,
                     <<[key |-> "content",
                        value |-> TextValue(Text("body", 10))]>>)>>

\* page.url and page.title() have been read for the result without raising
UrlTitleRead ==
    \E i \in 1..Len(ops) :
        /\ ops[i] = "title"
        /\ i = Len(ops) \/ ops[i + 1] # "raised"

\* C20: when interact, or read with selectors, has navigated, passed the
\* risk check and read url and title, it reports success = true with the
\* outcomes as they are, whatever they are and however many, and the
\* invocation ends with that document and status zero.
C20_SuccessWhateverOutcomes ==
    (/\ args.action \in {"interact", "read"}
     /\ args.action = "read" => args.selectors # <<>>
     /\ Navigated
     /\ risk.ran
     /\ ~risk.detected
     /\ UrlTitleRead) =>
        /\ ActionOver
        /\ Len(results) = IF args.action = "read"
                          THEN Cardinality(Range(args.selectors))
                          ELSE Len(args.selectors)
        /\ result.success
        /\ result.error = <<>>
        /\ result.payload = results
        /\ result.keys = {"success", "url", "title",
                          IF args.action = "read" THEN "results"
                          ELSE "interactions"}
        /\ pc = "exited" => printed = <<result>> /\ exitCode = 0

\* C20 witness: interact with two selectors, one not found and one raising,
\* has ended with success = true.
C20_Witness ==
    /\ pc = "exited"
    /\ args.action = "interact"
    /\ Len(args.selectors) = 2
    /\ Len(results) = 2
    /\ results[1].action = "not_found"
    /\ results[2].action = "error"
    /\ printed # <<>>
    /\ printed[1].success
    /\ printed[1].payload = results

====
